---- MODULE Spec2Model ----
(***************************************************************************)
(* Model of src/app.py: a PyQt6 PDF viewer.                                *)
(*   PdfToImage  - a decoded document as a sequence of page images         *)
(*   Canvas      - shows one page image, fit and centred, and tracks a     *)
(*                 mouse drag in begin / destination                       *)
(*   Window      - file selection, next / previous navigation, page label  *)
(* Every handler runs to completion on the UI thread, so each handler is   *)
(* one atomic action.  A handler is written as a function from the object  *)
(* state (a record of the fields of Window and Canvas) to the object state *)
(* so that the order of the assignments in the source is kept.             *)
(***************************************************************************)
EXTENDS Integers, Sequences, FiniteSets, TLC

\* ------------------------------------------------------------------ bounds
\* Documents have 1..MaxPages pages.
MaxPages == 3
\* Mouse positions are the points of the grid (0..MaxCoord) x (0..MaxCoord).
MaxCoord == 1
\* Natural image sizes and canvas sizes are drawn from 1..MaxDim (SpecGeom).
MaxDim == 22

VARIABLES
    pdf,               \* Window.pdf: None or a PdfToImage
    filename,          \* Window.filename
    current_page,      \* Window.current_page
    label_pages,       \* text of Window.label_pages, "a / b" kept as <<a, b>>
    button_prev_page,  \* enabled flag of Window.button_prev_page
    button_next_page,  \* enabled flag of Window.button_next_page
    pixmap,            \* Canvas.pixmap
    begin,             \* Canvas.begin
    destination,       \* Canvas.destination
    buttons,           \* mouse buttons physically held (QMouseEvent.buttons())
    pointer,           \* event.pos() of the last mouse event
    canvas_size,       \* Canvas.rect(): <<width, height>>
    screen,            \* what the last paintEvent drew; NotPainted while a
                       \* repaint requested by update() is pending
    alive              \* FALSE once an exception has left a handler uncaught

vars == <<pdf, filename, current_page, label_pages, button_prev_page,
          button_next_page, pixmap, begin, destination, buttons, pointer,
          canvas_size, screen, alive>>

\* ------------------------------------------------------------ files, pages
\* A file is named by a number: file n > 0 is a PDF of n pages, file 0 is a
\* file that the rasteriser rejects.  NoFile is the empty string returned by a
\* cancelled dialog.
NoFile == -1
Files == 0 .. MaxPages
Decodable(path) == path > 0

\* A decoded page image: which document, which page, its natural size.
PageImage(path, i) ==
    [doc |-> path, page |-> i, width |-> MaxCoord + 1, height |-> MaxCoord + 2]

\* Window.pdf = None
None == [loaded |-> FALSE, images |-> << >>]

\* PdfToImage.__init__ for a decodable file: one image per page.
PdfToImage(path) ==
    [loaded |-> TRUE, images |-> [i \in 1 .. path |-> PageImage(path, i - 1)]]

\* PdfToImage.__len__
len(p) == Len(p.images)

\* Python list indexing accepts item in -len .. len-1 and raises IndexError
\* outside it.
IndexInRange(p, item) == -len(p) <= item /\ item < len(p)

\* PdfToImage.__getitem__ (item in range): negative items count from the end.
getitem(p, item) ==
    IF item >= 0 THEN p.images[item + 1] ELSE p.images[len(p) + item + 1]

\* ------------------------------------------------------------ Qt geometry
Coords == 0 .. MaxCoord
Points == Coords \X Coords

\* QPoint(): the point (0, 0)
QPoint == <<0, 0>>

\* QPoint.isNull(): both coordinates are zero.
isNull(p) == p[1] = 0 /\ p[2] = 0

\* QRect(topLeft, bottomRight): the corners are stored as given.
QRect(p1, p2) == [x1 |-> p1[1], y1 |-> p1[2], x2 |-> p2[1], y2 |-> p2[2]]

\* QRect.normalized() of Qt 6: on an axis whose width is negative the corners
\* are swapped and at the same time changed from non-inclusive to inclusive.
normalized(r) ==
    LET nx == IF r.x2 < r.x1 THEN <<r.x2 + 1, r.x1 - 1>> ELSE <<r.x1, r.x2>>
        ny == IF r.y2 < r.y1 THEN <<r.y2 + 1, r.y1 - 1>> ELSE <<r.y1, r.y2>>
    IN  [x1 |-> nx[1], y1 |-> ny[1], x2 |-> nx[2], y2 |-> ny[2]]

\* ------------------------------------------------- double arithmetic, int()
Abs(n) == IF n < 0 THEN -n ELSE n

RECURSIVE Pow2(_)
Pow2(n) == IF n = 0 THEN 1 ELSE 2 * Pow2(n - 1)

\* 2^s mod b
RECURSIVE PowMod2(_, _)
PowMod2(s, b) == IF s = 0 THEN 1 % b ELSE (2 * PowMod2(s - 1, b)) % b

\* For 0 < a < b: the e >= 1 with 2^-e <= a/b < 2^-(e-1).
RECURSIVE BinExp(_, _, _)
BinExp(a, b, e) == IF Pow2(e) * a >= b THEN e ELSE BinExp(a, b, e + 1)

\* floor(log2(k)) for k >= 1
RECURSIVE FloorLog2(_, _)
FloorLog2(k, p) == IF Pow2(p + 1) > k THEN p ELSE FloorLog2(k, p + 1)

\* int(c * (a / b)) as Python computes it in IEEE-754 doubles, for integers
\* 1 <= a <= b and c >= 1 far below 2^26.  a / b is rounded to 53 bits, the
\* product is rounded again, int() truncates.  When b does not divide c*a the
\* exact product is at least 1/b away from every integer and the rounding
\* cannot cross one.  When c*a/b is an integer k, the result is k - 1 exactly
\* when the quotient was rounded down by so much that the product falls more
\* than half a unit in the last place below k.
IntMulRatio(c, a, b) ==
    LET k == (c * a) \div b
    IN  IF (c * a) % b # 0 \/ a = b THEN k
        ELSE LET e == BinExp(a, b, 1)
                 r == (a * PowMod2(52 + e, b)) % b
                 p == FloorLog2(k, 0)
                 half == IF Pow2(p) = k THEN e + p - 2 ELSE e + p - 1
                 below == IF half >= 0 THEN c * r > b * Pow2(half)
                                       ELSE c * r * Pow2(-half) > b
             IN  IF 2 * r >= b THEN k
                 ELSE IF below THEN k - 1 ELSE k

\* int((n / 2) - (m / 2)): halves are exact in doubles; int() truncates
\* towards zero.
IntHalfDiff(n, m) ==
    IF n - m >= 0 THEN (n - m) \div 2 ELSE -((m - n) \div 2)

\* ------------------------------------------------------------------ Canvas
\* QPixmap('welcome.png'), shown before a document is opened.
Welcome ==
    [doc |-> NoFile, page |-> 0, width |-> MaxCoord + 1,
     height |-> MaxCoord + 1, rects |-> {}]

\* Nothing painted yet, or a repaint is pending.
NotPainted ==
    [painted |-> FALSE, x |-> 0, y |-> 0, width |-> 0, height |-> 0,
     doc |-> NoFile, page |-> 0, rects |-> {}, overlay |-> {}]

\* QWidget.update(): what is on the screen is out of date until Qt delivers
\* the next paintEvent.
update(s) == [s EXCEPT !.screen = NotPainted]

\* Canvas.reload: the pixmap is replaced by the decoded page; nothing is
\* drawn on it yet.
reload(s, image) ==
    [s EXCEPT !.pixmap = [doc |-> image.doc, page |-> image.page,
                          width |-> image.width, height |-> image.height,
                          rects |-> {}]]

\* calculate_size_of_page with the landscape branch scaling by the canvas
\* height instead of the canvas width.
calculate_size_of_page_wrong_axis(size, width_page, height_page) ==
    LET width_canvas == size[1]
        height_canvas == size[2]
    IN  IF width_page <= width_canvas /\ height_page <= height_canvas
        THEN <<width_page, height_page>>
        ELSE IF width_page > height_page
             THEN <<width_canvas,
                    IntMulRatio(height_canvas, height_page, width_page)>>
             ELSE <<IntMulRatio(height_canvas, width_page, height_page),
                    height_canvas>>

\* Canvas.calculate_size_of_page
calculate_size_of_page(size, width_page, height_page) ==
    LET width_canvas == size[1]
        height_canvas == size[2]
    IN  IF width_page <= width_canvas /\ height_page <= height_canvas
        THEN <<width_page, height_page>>
        ELSE IF width_page > height_page
             THEN <<width_canvas,
                    IntMulRatio(width_canvas, height_page, width_page)>>
             ELSE <<IntMulRatio(height_canvas, width_page, height_page),
                    height_canvas>>

\* calculate_zero_coordinates with the vertical offset computed from the
\* image width instead of the image height.
calculate_zero_coordinates_wrong_side(size, width, height) ==
    LET width_canvas == size[1]
        height_canvas == size[2]
    IN  IF width <= width_canvas /\ height <= height_canvas
        THEN <<Abs(IntHalfDiff(width_canvas, width)),
               Abs(IntHalfDiff(height_canvas, width))>>
        ELSE IF width < height
             THEN <<Abs(IntHalfDiff(width_canvas, width)), 0>>
             ELSE <<0, Abs(IntHalfDiff(height_canvas, height))>>

\* Canvas.calculate_zero_coordinates
calculate_zero_coordinates(size, width, height) ==
    LET width_canvas == size[1]
        height_canvas == size[2]
    IN  IF width <= width_canvas /\ height <= height_canvas
        THEN <<Abs(IntHalfDiff(width_canvas, width)),
               Abs(IntHalfDiff(height_canvas, height))>>
        ELSE IF width < height
             THEN <<Abs(IntHalfDiff(width_canvas, width)), 0>>
             ELSE <<0, Abs(IntHalfDiff(height_canvas, height))>>

\* Canvas.paintEvent: the pixmap at the computed offset and size, then the
\* overlay rectangle when neither begin nor destination isNull.
paintEvent(s, size) ==
    LET wh == calculate_size_of_page(size, s.pixmap.width, s.pixmap.height)
        xy == calculate_zero_coordinates(size, wh[1], wh[2])
    IN  [painted |-> TRUE, x |-> xy[1], y |-> xy[2],
         width |-> wh[1], height |-> wh[2],
         doc |-> s.pixmap.doc, page |-> s.pixmap.page,
         rects |-> s.pixmap.rects,
         overlay |-> IF ~isNull(s.begin) /\ ~isNull(s.destination)
                     THEN {normalized(QRect(s.begin, s.destination))}
                     ELSE {}]

\* Canvas.mousePressEvent; btns is event.buttons(), pos is event.pos().
mousePressEvent(s, btns, pos) ==
    IF "Left" \in btns
    THEN update([s EXCEPT !.begin = pos, !.destination = pos])
    ELSE s

\* mouseMoveEvent assigning the position to begin as well, as the press
\* handler does.
mouseMoveEvent_moves_begin(s, btns, pos) ==
    IF "Left" \in btns
    THEN update([s EXCEPT !.begin = pos, !.destination = pos])
    ELSE s

\* Canvas.mouseMoveEvent
mouseMoveEvent(s, btns, pos) ==
    IF "Left" \in btns
    THEN update([s EXCEPT !.destination = pos])
    ELSE s

\* Canvas.mouseRleaseEvent: a method under a name Qt never calls.
mouseRleaseEvent(s, btns, pos) ==
    IF "Left" \in btns
    THEN update([s EXCEPT !.pixmap.rects =
                              @ \cup {normalized(QRect(s.begin, s.destination))},
                          !.begin = QPoint, !.destination = QPoint])
    ELSE s

\* QLabel.mouseReleaseEvent, which Canvas inherits and does not override:
\* the handler Qt calls when a button is released over the canvas.
mouseReleaseEvent(s, btns, pos) == s

\* ------------------------------------------------------------------ Window
\* An exception that leaves a handler: the assignments made so far stay, and
\* PyQt6 ends the process (no excepthook is installed).
Raise(s) == [s EXCEPT !.alive = FALSE]

\* Window.display_page
display_page(s, page) ==
    IF ~IndexInRange(s.pdf, page) THEN Raise(s)
    ELSE LET s1 == reload(s, getitem(s.pdf, page))
         IN  update([s1 EXCEPT !.button_next_page = TRUE,
                               !.label_pages =
                                   <<s.current_page + 1, len(s.pdf)>>])

\* Window.read_pdf
read_pdf(s, path) ==
    IF ~Decodable(path) THEN Raise(s)
    ELSE update([s EXCEPT !.pdf = PdfToImage(path)])

\* Window.select_file; chosen is what the file dialog returned.
select_file(s, chosen) ==
    IF chosen = NoFile THEN s
    ELSE LET s1 == [s EXCEPT !.filename = chosen, !.current_page = 0]
             s2 == read_pdf(s1, s1.filename)
         IN  IF ~s2.alive THEN s2 ELSE display_page(s2, 0)

\* display_next_page comparing the page index with the length instead of
\* the last index.
display_next_page_off_by_one(s) ==
    LET s1 == [s EXCEPT !.current_page = @ + 1]
        s2 == display_page(s1, s1.current_page)
    IN  IF ~s2.alive THEN s2
        ELSE [s2 EXCEPT !.button_prev_page = TRUE,
                        !.button_next_page = (s2.current_page # len(s2.pdf))]

\* Window.display_next_page
display_next_page(s) ==
    LET s1 == [s EXCEPT !.current_page = @ + 1]
        s2 == display_page(s1, s1.current_page)
    IN  IF ~s2.alive THEN s2
        ELSE [s2 EXCEPT !.button_prev_page = TRUE,
                        !.button_next_page =
                            (s2.current_page # len(s2.pdf) - 1)]

\* Window.display_prev_page
display_prev_page(s) ==
    LET s1 == [s EXCEPT !.current_page = @ - 1]
        s2 == display_page(s1, s1.current_page)
    IN  IF ~s2.alive THEN s2
        ELSE [s2 EXCEPT !.button_prev_page = (s2.current_page # 0),
                        !.button_next_page = TRUE]

\* ------------------------------------------------------------------ states
\* The fields of Window and Canvas as one record.
Self ==
    [pdf |-> pdf, filename |-> filename, current_page |-> current_page,
     label_pages |-> label_pages, button_prev_page |-> button_prev_page,
     button_next_page |-> button_next_page, pixmap |-> pixmap,
     begin |-> begin, destination |-> destination, screen |-> screen,
     alive |-> alive]

\* The fields after a handler returned s.
Becomes(s) ==
    /\ pdf' = s.pdf
    /\ filename' = s.filename
    /\ current_page' = s.current_page
    /\ label_pages' = s.label_pages
    /\ button_prev_page' = s.button_prev_page
    /\ button_next_page' = s.button_next_page
    /\ pixmap' = s.pixmap
    /\ begin' = s.begin
    /\ destination' = s.destination
    /\ screen' = s.screen
    /\ alive' = s.alive

\* Window.__init__ and Canvas.__init__
InitFields ==
    /\ pdf = None
    /\ filename = NoFile
    /\ current_page = 0
    /\ label_pages = <<0, 0>>
    /\ button_prev_page = FALSE
    /\ button_next_page = FALSE
    /\ begin = QPoint
    /\ destination = QPoint
    /\ buttons = {}
    /\ pointer = QPoint
    /\ screen = NotPainted
    /\ alive = TRUE

Init ==
    /\ InitFields
    /\ pixmap = Welcome
    /\ canvas_size = <<MaxCoord + 1, MaxCoord + 1>>

\* ----------------------------------------------------------------- actions
\* The "select file" button is clicked and the dialog returns chosen.
SelectFile ==
    /\ alive
    /\ \E chosen \in Files \cup {NoFile} : Becomes(select_file(Self, chosen))
    /\ UNCHANGED <<buttons, pointer, canvas_size>>

\* The "next" button is clicked; a disabled button emits no click.
ClickNext ==
    /\ alive
    /\ button_next_page
    /\ Becomes(display_next_page(Self))
    /\ UNCHANGED <<buttons, pointer, canvas_size>>

\* The "previous" button is clicked.
ClickPrev ==
    /\ alive
    /\ button_prev_page
    /\ Becomes(display_prev_page(Self))
    /\ UNCHANGED <<buttons, pointer, canvas_size>>

MouseButtons == {"Left", "Right"}

\* A mouse button goes down over the canvas; event.buttons() includes it.
MousePress ==
    /\ alive
    /\ \E b \in MouseButtons \ buttons, pos \in Points :
          /\ buttons' = buttons \cup {b}
          /\ pointer' = pos
          /\ Becomes(mousePressEvent(Self, buttons', pos))
    /\ UNCHANGED canvas_size

\* The pointer moves; without mouse tracking Qt delivers moves only while a
\* button is held.
MouseMove ==
    /\ alive
    /\ buttons # {}
    /\ \E pos \in Points :
          /\ pointer' = pos
          /\ Becomes(mouseMoveEvent(Self, buttons, pos))
    /\ UNCHANGED <<buttons, canvas_size>>

\* A mouse button goes up; event.buttons() no longer includes it.  Qt calls
\* mouseReleaseEvent, which Canvas does not define.
MouseRelease ==
    /\ alive
    /\ \E b \in buttons, pos \in Points :
          /\ buttons' = buttons \ {b}
          /\ pointer' = pos
          /\ Becomes(mouseReleaseEvent(Self, buttons', pos))
    /\ UNCHANGED canvas_size

\* Qt repaints the canvas.
Paint ==
    /\ alive
    /\ screen' = paintEvent(Self, canvas_size)
    /\ screen' # screen
    /\ UNCHANGED <<pdf, filename, current_page, label_pages, button_prev_page,
                   button_next_page, pixmap, begin, destination, buttons,
                   pointer, canvas_size, alive>>

Next ==
    \/ SelectFile
    \/ ClickNext
    \/ ClickPrev
    \/ MousePress
    \/ MouseMove
    \/ MouseRelease
    \/ Paint

Spec == Init /\ [][Next]_vars

\* ------------------------------------------ the first document of a window
\* The file dialog of a window in which no file was selected before.
FirstOpen ==
    /\ ~pdf.loaded
    /\ filename = NoFile
    /\ SelectFile

\* A freshly created window: one document is opened and then only "next" is
\* clicked, with any mouse events and repaints in between.
NextFresh ==
    \/ FirstOpen
    \/ ClickNext
    \/ MousePress
    \/ MouseMove
    \/ MouseRelease
    \/ Paint

SpecFresh == Init /\ [][NextFresh]_vars

\* ---------------------------------------------------- geometry on its own
\* The fit and centring computation for every natural image size and every
\* canvas size of the bounds: a freshly constructed window whose pixmap and
\* canvas have any size, and the repaint.
InitGeom ==
    /\ InitFields
    /\ \E w \in 1 .. MaxDim, h \in 1 .. MaxDim :
          pixmap = [Welcome EXCEPT !.width = w, !.height = h]
    /\ canvas_size \in (1 .. MaxDim) \X (1 .. MaxDim)

NextGeom == Paint

SpecGeom == InitGeom /\ [][NextGeom]_vars

\* ------------------------------------------------------------- properties
\* The bounding box of two points: corners (min x, min y) and (max x, max y).
Min(a, b) == IF a < b THEN a ELSE b
Max(a, b) == IF a < b THEN b ELSE a
BoundingBox(a, b) ==
    [x1 |-> Min(a[1], b[1]), y1 |-> Min(a[2], b[2]),
     x2 |-> Max(a[1], b[1]), y2 |-> Max(a[2], b[2])]

\* A step in which the left mouse button goes up.
LeftReleased == "Left" \in buttons /\ "Left" \notin buttons'

\* A step of select_file in which the chosen file cannot be decoded.
DecodeFails ==
    /\ alive
    /\ \E chosen \in Files :
          ~Decodable(chosen) /\ Becomes(select_file(Self, chosen))

\* The natural image exceeds the canvas on at least one axis.
Exceeds == pixmap.width > canvas_size[1] \/ pixmap.height > canvas_size[2]

\* C1: whenever a document is open, the previous button is disabled at page
\* index 0 and the next button is disabled at page index length-1.
C1_BoundaryButtonsDisabled ==
    (alive /\ pdf.loaded) =>
        /\ (current_page = 0 => ~button_prev_page)
        /\ (current_page = len(pdf) - 1 => ~button_next_page)

\* C2: whenever a document is open, 0 <= current page index < length.
C2_PageIndexInRange ==
    (alive /\ pdf.loaded) => (0 <= current_page /\ current_page < len(pdf))

\* C3: a select_file whose decoding fails leaves the stored document, the
\* file name, the page index, the label, both enabled flags and the canvas
\* image as they were before the attempt.
C3_FailedOpenKeepsState ==
    [][DecodeFails =>
          UNCHANGED <<pdf, filename, current_page, label_pages,
                      button_prev_page, button_next_page, pixmap>>]_vars

\* C4: when the left button is released, the bounding box of begin and
\* destination is drawn onto the stored page image.
C4_ReleaseCommitsRectangle ==
    [][LeftReleased =>
          BoundingBox(begin, destination) \in pixmap'.rects]_vars

\* C5: after the left button is released, begin and destination are both the
\* null point again.
C5_ReleaseResetsDrag ==
    [][LeftReleased => (isNull(begin') /\ isNull(destination'))]_vars

\* C6: begin and destination are either both null or both non-null.
C6_BothNullOrBothSet == isNull(begin) <=> isNull(destination)

\* C7: the displayed size never exceeds the natural size on either axis.
C7_NeverUpscales ==
    screen.painted =>
        (screen.width <= pixmap.width /\ screen.height <= pixmap.height)

\* C8 as stated: when the natural size exceeds the canvas, the truncated side
\* of the displayed size differs from the exact proportional value by less
\* than 1 (|dh - dw*h/w| < 1 is |dh*w - dw*h| < w).
C8_AspectWithinLessThanOne ==
    (screen.painted /\ Exceeds) =>
        IF pixmap.width > pixmap.height
        THEN Abs(screen.height * pixmap.width - screen.width * pixmap.height)
                 < pixmap.width
        ELSE Abs(screen.width * pixmap.height - screen.height * pixmap.width)
                 < pixmap.height

\* C8 amended: when the natural size exceeds the canvas, the truncated side
\* differs from the exact proportional value by at most 1.
C8_AspectWithinOne ==
    (screen.painted /\ Exceeds) =>
        IF pixmap.width > pixmap.height
        THEN Abs(screen.height * pixmap.width - screen.width * pixmap.height)
                 <= pixmap.width
        ELSE Abs(screen.width * pixmap.height - screen.height * pixmap.width)
                 <= pixmap.height

\* C8 witness: a scaled-down image whose truncated height is a whole pixel
\* below the exact proportional value.
C8_Witness ==
    /\ screen.painted
    /\ Exceeds
    /\ pixmap.width > pixmap.height
    /\ screen.width = canvas_size[1]
    /\ screen.width * pixmap.height - screen.height * pixmap.width
           = pixmap.width

\* C9: when the displayed image fits the canvas on both axes, its centre is
\* within 1 of the canvas centre on both axes (|x + dw/2 - cw/2| <= 1 is
\* |2x + dw - cw| <= 2).
C9_Centred ==
    (/\ screen.painted
     /\ screen.width <= canvas_size[1]
     /\ screen.height <= canvas_size[2]) =>
        /\ Abs(2 * screen.x + screen.width - canvas_size[1]) <= 2
        /\ Abs(2 * screen.y + screen.height - canvas_size[2]) <= 2

\* C9 witness: a scaled-down image that fits both axes and is offset on one,
\* with an odd margin.
C9_Witness ==
    /\ screen.painted
    /\ Exceeds
    /\ screen.width <= canvas_size[1]
    /\ screen.height < canvas_size[2]
    /\ screen.y > 0
    /\ (canvas_size[2] - screen.height) % 2 = 1

\* C10: the overlay rectangle of a drag is the bounding box of begin and
\* destination, so that a drag from A to B and a drag from B to A give the
\* same rectangle.
C10_OverlayIsBoundingBox ==
    (screen.painted /\ ~isNull(begin) /\ ~isNull(destination)) =>
        /\ screen.overlay = {BoundingBox(begin, destination)}
        /\ normalized(QRect(begin, destination))
               = normalized(QRect(destination, begin))

\* C11: in a fresh window, opening a document of N >= 2 pages gives label
\* "1 / N" with previous disabled and next enabled; every click on next adds
\* one to the page index and to the first number of the label, and after k
\* clicks the label reads "k+1 / N", previous is enabled iff k > 0 and next is
\* enabled iff k < N-1.
C11_FreshOpenThenNext ==
    /\ [][(FirstOpen /\ pdf'.loaded /\ len(pdf') >= 2) =>
             /\ label_pages' = <<1, len(pdf')>>
             /\ current_page' = 0
             /\ ~button_prev_page'
             /\ button_next_page']_vars
    /\ [][(ClickNext /\ len(pdf) >= 2) =>
             /\ alive'
             /\ current_page' = current_page + 1
             /\ label_pages' = <<label_pages[1] + 1, label_pages[2]>>]_vars
    /\ []((alive /\ pdf.loaded /\ len(pdf) >= 2) =>
             /\ current_page \in 0 .. len(pdf) - 1
             /\ label_pages = <<current_page + 1, len(pdf)>>
             /\ button_prev_page <=> (current_page > 0)
             /\ button_next_page <=> (current_page < len(pdf) - 1))

\* C11 witness: a 3-page document after two clicks on next: "3 / 3", next
\* disabled, previous enabled.
C11_Witness ==
    /\ alive
    /\ len(pdf) = 3
    /\ current_page = 2
    /\ label_pages = <<3, 3>>
    /\ ~button_next_page
    /\ button_prev_page

\* C12: the displayed size fits the canvas (dw <= cw and dh <= ch) and the
\* image as drawn lies inside the canvas rectangle: x >= 0, y >= 0,
\* x + dw <= cw, y + dh <= ch.
C12_DrawnInsideCanvas ==
    screen.painted =>
        /\ screen.width <= canvas_size[1]
        /\ screen.height <= canvas_size[2]
        /\ screen.x >= 0
        /\ screen.y >= 0
        /\ screen.x + screen.width <= canvas_size[1]
        /\ screen.y + screen.height <= canvas_size[2]

\* C13: when the displayed image fits the canvas on exactly one axis, only
\* that axis is offset: fitting the canvas width but taller than the canvas
\* gives y = 0 and x centred; wider than the canvas but fitting its height
\* gives x = 0 and y centred.
C13_OffsetOnFittingAxisOnly ==
    screen.painted =>
        /\ (screen.width <= canvas_size[1] /\ screen.height > canvas_size[2]) =>
               /\ screen.y = 0
               /\ screen.x = (canvas_size[1] - screen.width) \div 2
        /\ (screen.width > canvas_size[1] /\ screen.height <= canvas_size[2]) =>
               /\ screen.x = 0
               /\ screen.y = (canvas_size[2] - screen.height) \div 2

\* A step in which the right mouse button goes down or up.
RightButtonEvent == ("Right" \in buttons) # ("Right" \in buttons')

\* A step in which the left mouse button goes down.
LeftPressed == "Left" \notin buttons /\ "Left" \in buttons'

\* A pointer move with the left button held.
LeftDragMove == "Left" \in buttons /\ MouseMove

\* A step that shows another page (next, previous, or a file that decodes)
\* while no mouse button is held, so that every drag before it is completed.
PageChange ==
    /\ buttons = {}
    /\ SelectFile \/ ClickNext \/ ClickPrev
    /\ alive'
    /\ pixmap' # pixmap

\* C14: a press or release of a button other than the left one leaves begin,
\* destination and the stored page image unchanged, also while the left
\* button is held.
C14_OtherButtonsIgnored ==
    [][RightButtonEvent => UNCHANGED <<begin, destination, pixmap>>]_vars

\* C15: a left-button press at p sets begin and destination to p; every
\* pointer move with the left button held sets destination to the pointer
\* position and leaves begin and the stored page image unchanged.
C15_DragTracksPointer ==
    /\ [][LeftPressed => (begin' = pointer' /\ destination' = pointer')]_vars
    /\ [][LeftDragMove =>
             /\ destination' = pointer'
             /\ UNCHANGED <<begin, pixmap>>]_vars

\* C15 witness: in the middle of a drag, after a move away from the press
\* point.
C15_Witness ==
    /\ "Left" \in buttons
    /\ "Right" \notin buttons
    /\ begin # destination
    /\ destination = pointer
    /\ ~isNull(begin)

\* C16: a repaint while the left button is held draws the overlay rectangle
\* spanning the bounding box of the press point and the pointer position,
\* wherever the drag started and wherever it points.
C16_DragOverlayDrawn ==
    (screen.painted /\ buttons = {"Left"}) =>
        screen.overlay = {BoundingBox(begin, pointer)}

\* C17: after a page change the canvas image is the new page as decoded, with
\* nothing drawn on it, and begin and destination are null, so that the next
\* repaint draws no overlay.
C17_PageChangeDiscardsEdits ==
    [][PageChange =>
          /\ pixmap'.rects = {}
          /\ isNull(begin')
          /\ isNull(destination')]_vars

\* C18: whenever a document is open, the label reads
\* "<current page index + 1> / <length>", its first number is in 1..length and
\* the canvas image is the page at the current page index.
C18_LabelAndImageMatchIndex ==
    (alive /\ pdf.loaded) =>
        /\ label_pages = <<current_page + 1, len(pdf)>>
        /\ label_pages[1] \in 1 .. len(pdf)
        /\ pixmap.doc = filename
        /\ pixmap.page = current_page

====
